---------------------------- MODULE Spec2Model ----------------------------
(***************************************************************************)
(* A model of steam.py's AcfReader: the ACF/VDF parser _key_value_split,   *)
(* load, and the getters get_game_base_path, get_game_installdir,          *)
(* get_game_name and get_appid.                                            *)
(*                                                                         *)
(* A Python str is a sequence of one-character strings.  A Python value    *)
(* that the parser can produce is None, a str or a dict; a dict is the     *)
(* sequence of its (key, value) entries in insertion order, as CPython     *)
(* keeps it.  Positions are 0-based as in the source.                      *)
(***************************************************************************)
EXTENDS Integers, Sequences, FiniteSets, TLC

\* ------------------------------------------------------------- characters
Q  == "\""
LB == "{"
RB == "}"
SP == " "
TAB == "\t"
NL == "\n"
CR == "\r"
FF == "\f"

\* The characters str.split() and str.strip() take for whitespace: those whose
\* str.isspace() is true.  A character without an escape of its own is written
\* as the string naming its code point.
Whitespace ==
    { TAB, NL, "U+000B", FF, CR, "U+001C", "U+001D", "U+001E", "U+001F", SP,
      "U+0085", "U+00A0", "U+1680", "U+2000", "U+2001", "U+2002", "U+2003",
      "U+2004", "U+2005", "U+2006", "U+2007", "U+2008", "U+2009", "U+200A",
      "U+2028", "U+2029", "U+202F", "U+205F", "U+3000" }

\* ------------------------------------------------------- Python str methods
\* data[position] with a 0-based position
At(data, position) == data[position + 1]

\* c in s
Contains(s, c) == \E i \in 1..Len(s) : s[i] = c

\* s.count(c)
Count(s, c) == Cardinality({i \in 1..Len(s) : s[i] = c})

\* s.removeprefix(c)
removeprefix(s, c) == IF Len(s) > 0 /\ s[1] = c THEN Tail(s) ELSE s

\* s.removesuffix(c)
removesuffix(s, c) == IF Len(s) > 0 /\ s[Len(s)] = c THEN SubSeq(s, 1, Len(s) - 1) ELSE s

\* data[lo:hi] for 0 <= lo <= hi <= len(data)
Slice(data, lo, hi) == SubSeq(data, lo + 1, hi)

\* the first (last) index of s whose character is in S, or is not when in_set
\* is FALSE; Len(s) + 1 (0) when there is none
FirstIndex(s, in_set, S) ==
    LET hits == {i \in 1..Len(s) : (s[i] \in S) = in_set}
    IN IF hits = {} THEN Len(s) + 1 ELSE CHOOSE i \in hits : \A j \in hits : i <= j

LastIndex(s, in_set, S) ==
    LET hits == {i \in 1..Len(s) : (s[i] \in S) = in_set}
    IN IF hits = {} THEN 0 ELSE CHOOSE i \in hits : \A j \in hits : i >= j

\* s.lstrip(), s.rstrip(), s.strip()
lstrip(s) == SubSeq(s, FirstIndex(s, FALSE, Whitespace), Len(s))
rstrip(s) == SubSeq(s, 1, LastIndex(s, FALSE, Whitespace))
strip(s) == rstrip(lstrip(s))

\* s.split(): the maximal runs of non-whitespace characters, in order
RECURSIVE split(_)
split(s) ==
    LET t == lstrip(s)
        e == FirstIndex(t, TRUE, Whitespace)
    IN IF t = <<>> THEN <<>> ELSE <<SubSeq(t, 1, e - 1)>> \o split(SubSeq(t, e, Len(t)))

\* ------------------------------------------------------------ Python values
None       == [t |-> "None", s |-> <<>>, d |-> <<>>]
StrVal(s)  == [t |-> "str",  s |-> s,    d |-> <<>>]
DictVal(d) == [t |-> "dict", s |-> <<>>, d |-> d]

EmptyDict == <<>>

\* k in d
Has(d, k) == \E i \in 1..Len(d) : d[i].k = k

\* d[k] for a key the dict has
Get(d, k) == d[CHOOSE i \in 1..Len(d) : d[i].k = k].v

\* d[k] = v: an existing key keeps its place, a new key goes last
Put(d, k, v) ==
    IF Has(d, k)
    THEN [i \in 1..Len(d) |-> IF d[i].k = k THEN [k |-> k, v |-> v] ELSE d[i]]
    ELSE Append(d, [k |-> k, v |-> v])

\* the keys of d in iteration order
Keys(d) == [i \in 1..Len(d) |-> d[i].k]

\* --------------------------------------------------------------- outcomes
\* What a call ends in: a returned value or a raised exception.
Return(v)            == [kind |-> "return", value |-> v, msg |-> "", position |-> 0]
Raise(kind, msg, p)  == [kind |-> kind, value |-> None, msg |-> msg, position |-> p]

ExpectedKey   == "Expected key"
ExpectedValue == "Expected value or list"
OutOfRange    == "list index out of range"
\* the words every RecursionError message begins with; the interpreter adds
\* where it was when the limit was reached
TooDeep       == "maximum recursion depth exceeded"

\* ------------------------------------------------------- _key_value_split
\* the separator of the pieces of a value that was split up
JoinNoSpace(a, b) == a \o b
Join(a, b) == a \o <<SP>> \o b

\* while not '"' in data[position]: ...; position += 1
RECURSIVE quote_loop(_, _, _)
quote_loop(data, position, acc) ==
    IF position >= Len(data)
    THEN [ok |-> FALSE, position |-> position, acc |-> acc]
    ELSE IF ~Contains(At(data, position), Q)
         THEN quote_loop(data, position + 1, Join(acc, At(data, position)))
         ELSE [ok |-> TRUE, position |-> position, acc |-> acc]

\* the change of level one fragment of the scan makes
LevelAfter(frag, level) ==
    IF Contains(frag, LB) THEN level + 1
    ELSE IF Contains(frag, RB) THEN level - 1
    ELSE level

\* while level > 0: ...; position += 1
RECURSIVE brace_loop(_, _, _)
brace_loop(data, position, level) ==
    IF level > 0
    THEN IF position >= Len(data)
         THEN [ok |-> FALSE, position |-> position]
         ELSE brace_loop(data, position + 1, LevelAfter(At(data, position), level))
    ELSE [ok |-> TRUE, position |-> position]

\* if position - start_position < 2:  # this is an empty list
IsEmptyList(start_position, position) == position - start_position < 2

\* the first fragment of a value that was split up
IsSplitUp(frag) == Count(frag, Q) = 1

\* a value fragment that starts a list
OpensList(frag) == Contains(frag, LB)

\* the fragment can be a key
IsKey(frag) == Contains(frag, Q)

StripQuotes(frag) == removesuffix(removeprefix(frag, Q), Q)

\* sys.getrecursionlimit(), as the interpreter starts with: the levels that the
\* interpreter's stack may hold.  A frame is one level, and so is each call
\* that the interpreter makes into its own code below a frame.
RecursionLimit == 1000

\* The levels that a statement takes below the frame it runs in (CPython 3.11):
\* the comparison of line 48, and the close of the file on leaving the with
\* block of line 116.
CompareLevels == 1
ExitLevels    == 6

\* The levels open() takes below the frame of load: fewer when it fails to find
\* the file than when it makes a text reader, and one more in an interpreter
\* that is cold, one that has yet to run this part of open(), than afterwards.
\* What the interpreter has run before is not for the reader to know.
OpenLevels(found, cold) == (IF found THEN 4 ELSE 2) + (IF cold THEN 1 ELSE 0)

\* a statement that takes levels below the frame-th frame of the stack raises
\* RecursionError
Overflows(frame, levels) == frame + levels > RecursionLimit

\* self.filepath of a reader that has not been given a path
NoFile == <<"None">>

\* The levels that the message of the ValueError of lines 90 and 97 takes:
\* self.filepath is formatted into it, in one level more when it is None.
RaiseLevels(path) == IF path = NoFile THEN 2 ELSE 1

\* raise ValueError(...) in the activation whose frame is the frame-th, of a
\* reader whose self.filepath is path
ValueError(msg, position, frame, path) ==
    IF Overflows(frame, RaiseLevels(path))
    THEN Raise("RecursionError", TooDeep, position)
    ELSE Raise("ValueError", msg, position)

\* the loop of line 48 from the state st on, in the activation whose frame is
\* the frame-th of the interpreter's stack, of a reader whose self.filepath is
\* path; an activation that the limit leaves no level for fails at its first
\* test
RECURSIVE main_loop(_, _, _, _)

main_loop(data, st, frame, path) ==
    IF Overflows(frame, CompareLevels)
    THEN Raise("RecursionError", TooDeep, st.position)
    ELSE IF ~(st.position < Len(data))
    THEN Return(DictVal(st.schema))
    ELSE
      LET frag == At(data, st.position)
          Assign(v, position) ==
              main_loop(data, [schema      |-> Put(st.schema, st.current_key, v),
                               has_key     |-> FALSE,
                               current_key |-> st.current_key,
                               position    |-> position + 1], frame, path)
      IN
      IF st.has_key
      THEN
        IF Contains(frag, Q)
        THEN
          IF IsSplitUp(frag)
          THEN LET r == quote_loop(data, st.position + 1, removeprefix(frag, Q))
               IN IF ~r.ok
                  THEN Raise("IndexError", OutOfRange, r.position)
                  ELSE Assign(StrVal(Join(r.acc, removesuffix(At(data, r.position), Q))),
                              r.position)
          ELSE Assign(StrVal(StripQuotes(frag)), st.position)
        ELSE IF OpensList(frag)
        THEN LET start_position == st.position + 1
                 r == brace_loop(data, start_position, 1)
             IN IF ~r.ok
                THEN Raise("IndexError", OutOfRange, r.position)
                ELSE LET position == r.position - 1
                     IN IF IsEmptyList(start_position, position)
                        THEN Assign(DictVal(EmptyDict), position)
                        ELSE LET sub == main_loop(Slice(data, start_position, position),
                                                  [schema |-> EmptyDict, has_key |-> FALSE,
                                                   current_key |-> <<>>, position |-> 0],
                                                  frame + 1, path)
                             IN IF sub.kind # "return"
                                THEN sub
                                ELSE Assign(sub.value, position)
        ELSE ValueError(ExpectedValue, st.position, frame, path)
      ELSE
        IF ~IsKey(frag)
        THEN ValueError(ExpectedKey, st.position, frame, path)
        ELSE main_loop(data, [schema      |-> Put(st.schema, StripQuotes(frag), None),
                              has_key     |-> TRUE,
                              current_key |-> StripQuotes(frag),
                              position    |-> st.position + 1], frame, path)

\* _key_value_split(data), its frame being the frame-th of the stack, on a
\* reader whose self.filepath is path
_key_value_split(data, frame, path) ==
    main_loop(data, [schema |-> EmptyDict, has_key |-> FALSE,
                     current_key |-> <<>>, position |-> 0], frame, path)

\* --------------------------------------------------------------- getters
\* the key strings the getters look up
LIBRARYFOLDERS == <<"l","i","b","r","a","r","y","f","o","l","d","e","r","s">>
APPS           == <<"a","p","p","s">>
PATH           == <<"p","a","t","h">>
APPSTATE       == <<"A","p","p","S","t","a","t","e">>
INSTALLDIR     == <<"i","n","s","t","a","l","l","d","i","r">>
NAME           == <<"n","a","m","e">>
APPID          == <<"a","p","p","i","d">>

\* for x in v: the values x takes, in order (v is a str or a dict)
Iter(v) == IF v.t = "dict" THEN Keys(v.d) ELSE [i \in 1..Len(v.s) |-> <<v.s[i]>>]

\* v[k] for a str k
Subscript(v, k) ==
    IF v.t = "dict"
    THEN IF Has(v.d, k) THEN Return(Get(v.d, k)) ELSE Raise("KeyError", "key", 0)
    ELSE Raise("TypeError", IF v.t = "str" THEN "string indices must be integers"
                                           ELSE "'NoneType' object is not subscriptable", 0)

NotIterable == Raise("TypeError", "'NoneType' object is not iterable", 0)
NoBasePath  == Raise("FileNotFoundError", "Game base path could not be determined", 0)

\* for savepoint_id in self.data["libraryfolders"]: ..., from the i-th entry on
RECURSIVE scan_libraries(_, _, _)
scan_libraries(lf, i, steam_gameid) ==
    IF i > Len(Iter(lf))
    THEN NoBasePath
    ELSE LET entry == Subscript(lf, Iter(lf)[i])
         IN IF entry.kind # "return" THEN entry
            ELSE LET apps == Subscript(entry.value, APPS)
                 IN IF apps.kind # "return" THEN apps
                    ELSE IF apps.value.t = "None" THEN NotIterable
                    ELSE IF \E j \in 1..Len(Iter(apps.value)) :
                                Iter(apps.value)[j] = steam_gameid
                         THEN Subscript(entry.value, PATH)
                         ELSE scan_libraries(lf, i + 1, steam_gameid)

get_game_base_path_of(d, steam_gameid) ==
    IF Len(d) < 1
    THEN Raise("ValueError", "No data loaded. Load libraryfolders.vdf first", 0)
    ELSE IF ~Has(d, LIBRARYFOLDERS)
    THEN Raise("ValueError", "Root node 'libraryfolders' not found. Wrong file?", 0)
    ELSE IF Get(d, LIBRARYFOLDERS).t = "None" THEN NotIterable
    ELSE scan_libraries(Get(d, LIBRARYFOLDERS), 1, steam_gameid)

\* None when the check passes, the exception otherwise
_check_loaded_manifest(d) ==
    IF Len(d) < 1
    THEN Raise("ValueError", "No data loaded. Load appmanifest_<gameid>.acf first", 0)
    ELSE IF ~Has(d, APPSTATE)
    THEN Raise("ValueError", "Root node 'AppState' not found. Wrong file?", 0)
    ELSE Return(None)

\* self._check_loaded_manifest(); return self.data["AppState"][field]
manifest_field(d, field) ==
    IF _check_loaded_manifest(d).kind # "return"
    THEN _check_loaded_manifest(d)
    ELSE Subscript(Get(d, APPSTATE), field)

\* ------------------------------------------------------------ input files
\* A file is identified with the text stored in it.  The files are: every
\* sequence of at most MaxFrags fragments of Alphabet; the one-level documents
\* FlatDocs; the documents WellFormedDocs written from a tree; the manifests and
\* the library listings.
MaxFrags == 4
MaxValueLen == 3

Quoted(s) == <<Q>> \o s \o <<Q>>

KA == <<"a">>
KB == <<"b">>

Alphabet ==
    { Quoted(KA), <<Q, "a">>, <<"a", Q>>, <<"a">>, <<LB>>, <<RB>> }

RECURSIVE SeqsUpTo(_, _)
SeqsUpTo(S, n) ==
    IF n = 0 THEN {<<>>}
    ELSE LET shorter == SeqsUpTo(S, n - 1)
         IN shorter \cup {Append(q, x) : q \in {r \in shorter : Len(r) = n - 1}, x \in S}

FragSeqs == SeqsUpTo(Alphabet, MaxFrags)

\* the pieces written one after the other with sep between them
RECURSIVE Text(_, _)
Text(pieces, sep) ==
    IF Len(pieces) = 0 THEN <<>>
    ELSE IF Len(pieces) = 1 THEN pieces[1]
    ELSE pieces[1] \o sep \o Text(Tail(pieces), sep)

FragTexts == {Text(fs, <<SP>>) : fs \in FragSeqs}

\* One-level documents: quoted single-word keys that differ, quoted values
\* without a quote character that may hold whitespace; the tokens stand on one
\* line or on lines of their own.
ValueChars == {"x", SP, TAB, NL}
Values == SeqsUpTo(ValueChars, MaxValueLen)
Separators == {<<SP>>, <<CR, NL, TAB>>}
Margins == {<<>>, <<"U+00A0", NL>>}
FlatPairs ==
    {<<[k |-> k1, v |-> v1]>> : k1 \in {KA, KB}, v1 \in Values}
    \cup {<<[k |-> ks[1], v |-> v1], [k |-> ks[2], v |-> v2]>> :
            ks \in {<<KA, KB>>, <<KB, KA>>}, v1 \in Values, v2 \in {<<"x">>, <<"x", SP, "x">>}}

RECURSIVE PairPieces(_)
PairPieces(pairs) ==
    IF Len(pairs) = 0 THEN <<>>
    ELSE <<Quoted(pairs[1].k), Quoted(pairs[1].v)>> \o PairPieces(Tail(pairs))

FlatText(pairs, sep, margin) == margin \o Text(PairPieces(pairs), sep) \o margin

\* a value with every whitespace run replaced by one space
RECURSIVE Normalise(_)
Normalise(v) ==
    IF Len(v) = 0 THEN <<>>
    ELSE IF v[1] \in Whitespace
         THEN <<SP>> \o Normalise(SubSeq(v, FirstIndex(v, FALSE, Whitespace), Len(v)))
         ELSE <<v[1]>> \o Normalise(Tail(v))

FlatTree(pairs) == [i \in 1..Len(pairs) |-> [k |-> pairs[i].k, v |-> StrVal(Normalise(pairs[i].v))]]

\* the one-level documents with the tree each is to give
FlatTable ==
    {<<FlatText(ps, sep, m), FlatTree(ps)>> : ps \in FlatPairs, sep \in Separators, m \in Margins}
FlatTexts == {e[1] : e \in FlatTable}

\* Well-formed documents: a tree of nesting depth at most three, written out
\* with a quoted key before each value, a quoted string for a leaf and a
\* brace-delimited group for a block.
Leaves == {StrVal(<<"x">>), StrVal(<<"x", SP, "y">>), StrVal(<<LB>>), StrVal(<<>>)}
BlocksOver(vals) ==
    {EmptyDict}
    \cup {<<[k |-> KA, v |-> v1]>> : v1 \in vals}
    \cup {<<[k |-> KA, v |-> v1], [k |-> KB, v |-> v2]>> : v1 \in vals, v2 \in vals}
InnerBlocks == BlocksOver(Leaves)
MiddleBlocks == BlocksOver(Leaves \cup {DictVal(EmptyDict), DictVal(<<[k |-> KA, v |-> StrVal(<<"x">>)]>>),
                                        DictVal(<<[k |-> KA, v |-> StrVal(<<LB>>)]>>)})
WellFormedTrees ==
    {<<[k |-> KA, v |-> v1]>> : v1 \in {DictVal(b) : b \in InnerBlocks \cup MiddleBlocks}}
    \cup {<<[k |-> KA, v |-> v1], [k |-> KB, v |-> StrVal(<<"x">>)]>> :
            v1 \in {DictVal(b) : b \in InnerBlocks \cup MiddleBlocks}}

RECURSIVE TreePieces(_)
TreePieces(d) ==
    IF Len(d) = 0 THEN <<>>
    ELSE <<Quoted(d[1].k)>>
         \o (IF d[1].v.t = "dict"
             THEN <<<<LB>>>> \o TreePieces(d[1].v.d) \o <<<<RB>>>>
             ELSE <<Quoted(d[1].v.s)>>)
         \o TreePieces(Tail(d))

WellFormedTable == {<<Text(TreePieces(t), <<NL, TAB>>), t>> : t \in WellFormedTrees}
WellFormedTexts == {e[1] : e \in WellFormedTable}

\* Library listings: "libraryfolders" over one or two entries, each entry a
\* block with or without "path" and "apps", or a plain string.
ID100 == <<"1","0","0">>
ID200 == <<"2","0","0">>
ID999 == <<"9","9","9">>
GameIds == {ID100, ID200, ID999}
Zero == StrVal(<<"0">>)
AppsOf(id) == DictVal(<<[k |-> id, v |-> Zero]>>)
EntryValues(path) ==
    { DictVal(<<[k |-> PATH, v |-> StrVal(path)], [k |-> APPS, v |-> AppsOf(ID100)]>>),
      DictVal(<<[k |-> PATH, v |-> StrVal(path)], [k |-> APPS, v |-> AppsOf(ID200)]>>),
      DictVal(<<[k |-> PATH, v |-> StrVal(path)], [k |-> APPS, v |-> DictVal(EmptyDict)]>>),
      DictVal(<<[k |-> PATH, v |-> StrVal(path)], [k |-> APPS, v |-> StrVal(ID200)]>>),
      DictVal(<<[k |-> PATH, v |-> StrVal(path)]>>),
      DictVal(<<[k |-> APPS, v |-> AppsOf(ID200)]>>),
      StrVal(<<"x">>) }
LibraryTrees ==
    {<<[k |-> LIBRARYFOLDERS, v |-> DictVal(<<[k |-> <<"1">>, v |-> e1]>>)]>> :
        e1 \in EntryValues(<<"/", "b">>)}
    \cup {<<[k |-> LIBRARYFOLDERS,
             v |-> DictVal(<<[k |-> <<"1">>, v |-> e1], [k |-> <<"0">>, v |-> e0]>>)]>> :
            e1 \in EntryValues(<<"/", "b">>), e0 \in EntryValues(<<"/", "a">>)}
    \cup {<<[k |-> LIBRARYFOLDERS, v |-> DictVal(EmptyDict)]>>,
          <<[k |-> LIBRARYFOLDERS, v |-> StrVal(<<"x">>)]>>}
LibraryTexts == {Text(TreePieces(t), <<NL, TAB>>) : t \in LibraryTrees} \cup {Quoted(LIBRARYFOLDERS)}

\* Manifests: "AppState" over any of the three fields, or over a plain string.
Fields == {INSTALLDIR, NAME, APPID}
FieldEntries ==
    <<[k |-> APPID, v |-> StrVal(<<"8", "8">>)], [k |-> NAME, v |-> StrVal(<<"N", "o">>)],
      [k |-> INSTALLDIR, v |-> StrVal(<<"D">>)]>>
RECURSIVE Pick(_, _)
Pick(entries, keep) ==
    IF Len(entries) = 0 THEN <<>>
    ELSE (IF entries[1].k \in keep THEN <<entries[1]>> ELSE <<>>) \o Pick(Tail(entries), keep)
ManifestTrees ==
    {<<[k |-> APPSTATE, v |-> DictVal(Pick(FieldEntries, keep))]>> : keep \in SUBSET Fields}
    \cup {<<[k |-> APPSTATE, v |-> StrVal(<<"x">>)]>>}
ManifestTexts == {Text(TreePieces(t), <<NL, TAB>>) : t \in ManifestTrees} \cup {Quoted(APPSTATE)}

Files == FragTexts \cup FlatTexts \cup WellFormedTexts \cup LibraryTexts \cup ManifestTexts

\* the files that load is run on one step at a time
TraceFiles ==
    FragTexts \cup WellFormedTexts \cup LibraryTexts \cup ManifestTexts

\* a path at which there is no file
MissingFile == <<"missing">>

\* a key and an opening brace on two lines
UnclosedFile == Text(<<Quoted(KA), <<LB>>>>, <<NL>>)

\* open(path) finds a file
exists(path) == path # MissingFile

\* what text mode makes of the line ends of s: CR NL and a lone CR become NL
RECURSIVE universal_newlines(_)
universal_newlines(s) ==
    LET i == FirstIndex(s, TRUE, {CR})
        after == IF i < Len(s) /\ s[i + 1] = NL THEN i + 2 ELSE i + 1
    IN IF i > Len(s) THEN s
       ELSE SubSeq(s, 1, i - 1) \o <<NL>> \o universal_newlines(SubSeq(s, after, Len(s)))

\* infile.read(): the text of the file at path, a file being identified with
\* the text stored in it
read(path) == universal_newlines(path)

NoSuchFile == Raise("FileNotFoundError", "No such file or directory", 0)

\* ------------------------------------------------------------------ state
VARIABLES
    filepath,   \* self.filepath
    data,       \* self.data
    result,     \* the last call on the reader: its name, argument and outcome
    frames,     \* the running activations of _key_value_split, the innermost last
    iterations, \* the loop iterations the running load has started
    completed,  \* those of them that ran to their end
    depth       \* the most activations the running load had at once

vars == <<filepath, data, result, frames, iterations, completed, depth>>

Called(op, arg, out) == [op |-> op, arg |-> arg, out |-> out]

\* AcfReader()
Init ==
    /\ filepath = NoFile
    /\ data = EmptyDict
    /\ result = Called("__init__", <<>>, Return(None))
    /\ frames = <<>>
    /\ iterations = 0
    /\ completed = 0
    /\ depth = 0

\* What a test method of the script's own test block (lines 392-435) runs over:
\* the eleven frames from the script through unittest.main() to the call of
\* the method, and the four calls that the interpreter makes into its own code
\* between them.
TestRunnerFrames == 11
TestRunnerLevels == 4

\* The levels in use where the script's own tests call load: the test method
\* and get_game_install_path or get_game_appdata_path over the runner, and one
\* more through get_appid_by_name and get_all_installed_games.
TestCallDepths ==
    {TestRunnerFrames + TestRunnerLevels + 2, TestRunnerFrames + TestRunnerLevels + 3}

\* the same calls over as many frames of a caller that takes no other level
PlainCallDepths == {TestRunnerFrames + 2, TestRunnerFrames + 3}

\* The levels in use where a script calls load: one at its top level, two in
\* a function that it calls, three in get_all_installed_games under
\* get_appid_by_name, four in _get_loginuser_vdf under _get_loginuser_info
\* under get_personal_name.
ScriptDepths == 1..4

\* the levels in use where load is called
CallerDepths == ScriptDepths \cup PlainCallDepths \cup TestCallDepths

TooDeepToRun == Raise("RecursionError", TooDeep, 0)

\* What load(path) ends in when called over callers levels, its own frame being
\* the next one, in an interpreter that is cold or not: entered tells that
\* load ran at all (lines 113 and 114), data is what line 117 assigned, or {}
\* when it did not, and out is the outcome.  The call fails when the limit
\* leaves no level for the frame of load; open() fails; the parse runs in the
\* second frame above the caller's; and whatever the parse ended in, the close
\* of the file on the way out can fail.
load_outcome(path, callers, cold) ==
    IF Overflows(callers, 1)
    THEN [entered |-> FALSE, data |-> EmptyDict, out |-> TooDeepToRun]
    ELSE IF Overflows(callers + 1, OpenLevels(exists(path), cold))
    THEN [entered |-> TRUE, data |-> EmptyDict, out |-> TooDeepToRun]
    ELSE IF ~exists(path)
    THEN [entered |-> TRUE, data |-> EmptyDict, out |-> NoSuchFile]
    ELSE LET parsed == _key_value_split(split(strip(read(path))), callers + 2, path)
         IN [entered |-> TRUE,
             data |-> IF parsed.kind = "return" THEN parsed.value.d ELSE EmptyDict,
             out |-> IF Overflows(callers + 1, ExitLevels) THEN TooDeepToRun
                     ELSE IF parsed.kind = "return" THEN Return(None)
                     ELSE parsed]

\* load(path), on a new reader or on one that has loaded before
load(path, callers, cold) ==
    /\ LET ended == load_outcome(path, callers, cold)
       IN /\ filepath' = IF ended.entered THEN path ELSE filepath
          /\ data' = IF ended.entered THEN ended.data ELSE data
          /\ result' = Called("load", <<>>, ended.out)
    /\ UNCHANGED <<frames, iterations, completed, depth>>

get_game_base_path(steam_gameid) ==
    /\ result' = Called("get_game_base_path", steam_gameid,
                        get_game_base_path_of(data, steam_gameid))
    /\ UNCHANGED <<filepath, data, frames, iterations, completed, depth>>

get_game_installdir ==
    /\ result' = Called("get_game_installdir", INSTALLDIR, manifest_field(data, INSTALLDIR))
    /\ UNCHANGED <<filepath, data, frames, iterations, completed, depth>>

get_game_name ==
    /\ result' = Called("get_game_name", NAME, manifest_field(data, NAME))
    /\ UNCHANGED <<filepath, data, frames, iterations, completed, depth>>

get_appid ==
    /\ result' = Called("get_appid", APPID, manifest_field(data, APPID))
    /\ UNCHANGED <<filepath, data, frames, iterations, completed, depth>>

\* the files that the functions which the tests call load: libraryfolders.vdf
\* and the manifest of an app
SteamFiles == LibraryTexts \cup ManifestTexts

\* A call of load: the path, the levels under the call, and whether the
\* interpreter is cold.  A new reader is given any of the paths by a script, or
\* one of the steam files from the depth of a test; a reader that has been
\* used is given one of two calls.
Calls(paths) ==
    ((paths \cup {MissingFile}) \X ScriptDepths \X BOOLEAN)
    \cup ((SteamFiles \cup {MissingFile}) \X (PlainCallDepths \cup TestCallDepths) \X BOOLEAN)
FirstCalls == Calls(Files)
TraceCalls == Calls(TraceFiles)
ReloadCalls == { <<MissingFile, 1, TRUE>>, <<UnclosedFile, 4, FALSE>> }

\* the calls the next load is one of
LoadCalls(initial) == IF result.op = "__init__" THEN initial ELSE ReloadCalls

Next ==
    \/ \E call \in LoadCalls(FirstCalls) : load(call[1], call[2], call[3])
    \/ \E steam_gameid \in GameIds : get_game_base_path(steam_gameid)
    \/ get_game_installdir
    \/ get_game_name
    \/ get_appid

Spec == Init /\ [][Next]_vars

\* ------------------------------------------------- load, one step at a time
\* The same load with _key_value_split run one loop iteration at a time.  A
\* frame holds the locals of one activation; pc tells the loop it is in:
\* "main" (line 48), "quote" (line 56), "brace" (line 72) or "call" (line 86);
\* entered is the position at which its main-loop iteration began; frame is
\* the place of the activation's frame in the interpreter's stack.
Running == [kind |-> "running", value |-> None, msg |-> "", position |-> 0]

Frame(fragments, frame) ==
    [data |-> fragments, schema |-> EmptyDict, has_key |-> FALSE, current_key |-> <<>>,
     position |-> 0, pc |-> "main", level |-> 0, start_position |-> 0, entered |-> 0,
     frame |-> frame]

Top == frames[Len(frames)]
Callers == SubSeq(frames, 1, Len(frames) - 1)
InLoop(pc) == frames # <<>> /\ Top.pc = pc
Fragment == At(Top.data, Top.position)
InRange == Top.position < Len(Top.data)

\* the frame of the running load: the one under the outermost activation's
LoadFrame == frames[1].frame - 1

\* what load ends in when out comes to the end of its with block: the close of
\* the file can fail
Leave(out) == IF Overflows(LoadFrame, ExitLevels) THEN TooDeepToRun ELSE out

\* one iteration of a loop, from the test of its condition to the end of its
\* body: the top frame becomes f
Iterate(f) ==
    /\ frames' = Callers \o <<f>>
    /\ iterations' = iterations + 1
    /\ completed' = completed + 1
    /\ UNCHANGED <<filepath, data, result, depth>>

\* a main-loop iteration, up to the inner loop of its body: the top frame
\* becomes f
Begin(f) ==
    /\ frames' = Callers \o <<f>>
    /\ iterations' = iterations + 1
    /\ UNCHANGED <<filepath, data, result, completed, depth>>

\* the rest of a main-loop iteration, to the end of its body: the top frame
\* becomes f
Continue(f) ==
    /\ frames' = Callers \o <<f>>
    /\ completed' = completed + 1
    /\ UNCHANGED <<filepath, data, result, iterations, depth>>

\* The exception out leaves every activation and then load.  It was raised in
\* the body of a loop iteration that had just begun when started is 1, and in
\* the condition of a loop when it is 0; no iteration that was running when
\* it was raised runs to its end.
RaiseOut(out, started) ==
    /\ result' = Called("load", <<>>, Leave(out))
    /\ frames' = <<>>
    /\ iterations' = iterations + started
    /\ UNCHANGED <<filepath, data, completed, depth>>

\* schema[current_key] = v; has_key = False; position += 1 (lines 94 and 104)
Assigned(f, v, position) ==
    [f EXCEPT !.schema = Put(f.schema, f.current_key, v), !.has_key = FALSE,
              !.position = position + 1, !.pc = "main"]

\* lines 113-117, called over callers levels, up to the first test of line 48
\* in _key_value_split, or to the failure of the call or of open(); no load is
\* running
begin_load(path, callers, cold) ==
    /\ frames = <<>>
    /\ iterations' = 0
    /\ completed' = 0
    /\ IF Overflows(callers, 1)
       THEN /\ UNCHANGED <<filepath, data>>
            /\ result' = Called("load", <<>>, TooDeepToRun)
            /\ frames' = <<>>
            /\ depth' = 0
       ELSE /\ filepath' = path
            /\ data' = EmptyDict
            /\ IF Overflows(callers + 1, OpenLevels(exists(path), cold))
               THEN /\ result' = Called("load", <<>>, TooDeepToRun)
                    /\ frames' = <<>>
                    /\ depth' = 0
               ELSE IF ~exists(path)
               THEN /\ result' = Called("load", <<>>, NoSuchFile)
                    /\ frames' = <<>>
                    /\ depth' = 0
               ELSE IF Overflows(callers + 2, CompareLevels)
               THEN /\ result' = Called("load", <<>>, TooDeepToRun)
                    /\ frames' = <<>>
                    /\ depth' = 1
               ELSE /\ result' = Called("load", <<>>, Running)
                    /\ frames' = <<Frame(split(strip(read(path))), callers + 2)>>
                    /\ depth' = 1

\* lines 96-104: a key
read_key ==
    /\ InLoop("main") /\ InRange /\ ~Top.has_key /\ IsKey(Fragment)
    /\ Iterate([Top EXCEPT !.schema = Put(Top.schema, StripQuotes(Fragment), None),
                           !.has_key = TRUE, !.current_key = StripQuotes(Fragment),
                           !.position = Top.position + 1, !.entered = Top.position])

\* lines 96-99
raise_expected_key ==
    /\ InLoop("main") /\ InRange /\ ~Top.has_key /\ ~IsKey(Fragment)
    /\ RaiseOut(ValueError(ExpectedKey, Top.position, Top.frame, filepath), 1)

\* lines 64-67: a value in one fragment
read_value ==
    /\ InLoop("main") /\ InRange /\ Top.has_key
    /\ Contains(Fragment, Q) /\ ~IsSplitUp(Fragment)
    /\ Iterate(Assigned([Top EXCEPT !.entered = Top.position],
                        StrVal(StripQuotes(Fragment)), Top.position))

\* lines 54-55: the first fragment of a value that was split up
begin_value ==
    /\ InLoop("main") /\ InRange /\ Top.has_key
    /\ Contains(Fragment, Q) /\ IsSplitUp(Fragment)
    /\ Begin([Top EXCEPT !.schema = Put(Top.schema, Top.current_key,
                                        StrVal(removeprefix(Fragment, Q))),
                         !.position = Top.position + 1, !.pc = "quote",
                         !.entered = Top.position])

\* lines 57-60: one iteration of the loop over the fragments of the value
quote_step(f) ==
    [f EXCEPT !.schema = Put(f.schema, f.current_key,
                             StrVal(Join(Get(f.schema, f.current_key).s, At(f.data, f.position)))),
              !.position = f.position + 1]

continue_value ==
    /\ InLoop("quote") /\ InRange /\ ~Contains(Fragment, Q)
    /\ Iterate(quote_step(Top))

\* lines 61-63: the last fragment of the value
end_value ==
    /\ InLoop("quote") /\ InRange /\ Contains(Fragment, Q)
    /\ Continue(Assigned(Top, StrVal(Join(Get(Top.schema, Top.current_key).s,
                                          removesuffix(Fragment, Q))),
                         Top.position))

\* data[position] past the last fragment: in the condition of the loop of line
\* 56, or at line 73 in an iteration that the loop of line 72 has started
raise_index_error ==
    /\ \/ InLoop("quote")
       \/ InLoop("brace") /\ Top.level > 0
    /\ ~InRange
    /\ RaiseOut(Raise("IndexError", OutOfRange, Top.position),
                IF Top.pc = "brace" THEN 1 ELSE 0)

\* lines 69-71: a list opens
begin_list ==
    /\ InLoop("main") /\ InRange /\ Top.has_key
    /\ ~Contains(Fragment, Q) /\ OpensList(Fragment)
    /\ Begin([Top EXCEPT !.level = 1, !.position = Top.position + 1,
                         !.start_position = Top.position + 1, !.pc = "brace",
                         !.entered = Top.position])

\* the scan with the position += 1 of line 79 left out
brace_stuck(f) ==
    [f EXCEPT !.level = LevelAfter(At(f.data, f.position), f.level)]

\* lines 73-79: one iteration of the scan for the end of the list
brace_step(f) ==
    [f EXCEPT !.level = LevelAfter(At(f.data, f.position), f.level),
              !.position = f.position + 1]

scan_list ==
    /\ InLoop("brace") /\ Top.level > 0 /\ InRange
    /\ Iterate(brace_step(Top))

\* the fragments handed to the nested call (line 87)
SubRange(f) == Slice(f.data, f.start_position, f.position - 1)

\* lines 80-84: the list counts as empty
end_empty_list ==
    /\ InLoop("brace") /\ ~(Top.level > 0)
    /\ IsEmptyList(Top.start_position, Top.position - 1)
    /\ Continue(Assigned(Top, DictVal(EmptyDict), Top.position - 1))

\* lines 80-88: the nested call, up to the first test of line 48 in the new
\* activation, where RecursionError is raised at the recursion limit
call_nested ==
    /\ InLoop("brace") /\ ~(Top.level > 0)
    /\ ~IsEmptyList(Top.start_position, Top.position - 1)
    /\ depth' = IF Len(frames) + 1 > depth THEN Len(frames) + 1 ELSE depth
    /\ IF Overflows(Top.frame + 1, CompareLevels)
       THEN /\ result' = Called("load", <<>>, Leave(TooDeepToRun))
            /\ frames' = <<>>
       ELSE /\ frames' = Callers \o <<[Top EXCEPT !.position = Top.position - 1, !.pc = "call"],
                                       Frame(SubRange(Top), Top.frame + 1)>>
            /\ UNCHANGED result
    /\ UNCHANGED <<filepath, data, iterations, completed>>

\* line 90
raise_expected_value ==
    /\ InLoop("main") /\ InRange /\ Top.has_key
    /\ ~Contains(Fragment, Q) /\ ~OpensList(Fragment)
    /\ RaiseOut(ValueError(ExpectedValue, Top.position, Top.frame, filepath), 1)

\* line 106 in a nested call: the caller assigns the schema (lines 86, 94, 104)
return_nested ==
    /\ InLoop("main") /\ ~InRange /\ Len(frames) > 1
    /\ frames' = SubSeq(frames, 1, Len(frames) - 2)
                 \o <<Assigned(frames[Len(frames) - 1], DictVal(Top.schema),
                               frames[Len(frames) - 1].position)>>
    /\ completed' = completed + 1
    /\ UNCHANGED <<filepath, data, result, iterations, depth>>

\* line 106 in the outermost call, line 117: self.data = ..., and the end of
\* the with block of line 116
end_load ==
    /\ InLoop("main") /\ ~InRange /\ Len(frames) = 1
    /\ data' = Top.schema
    /\ result' = Called("load", <<>>, Leave(Return(None)))
    /\ frames' = <<>>
    /\ UNCHANGED <<filepath, iterations, completed, depth>>

NextTrace ==
    \/ \E call \in LoadCalls(TraceCalls) : begin_load(call[1], call[2], call[3])
    \/ read_key
    \/ raise_expected_key
    \/ read_value
    \/ begin_value
    \/ continue_value
    \/ end_value
    \/ raise_index_error
    \/ begin_list
    \/ scan_list
    \/ end_empty_list
    \/ call_nested
    \/ raise_expected_value
    \/ return_nested
    \/ end_load

\* The interpreter runs the next statement of a running load; nothing makes a
\* caller load again.
SpecTrace == Init /\ [][NextTrace]_vars /\ WF_vars(frames # <<>> /\ NextTrace)

\* Run step by step, load ends as load run at once does.
TraceAgrees ==
    (filepath # NoFile /\ frames = <<>>) =>
        \E callers \in CallerDepths, cold \in BOOLEAN :
            LET ended == load_outcome(filepath, callers, cold)
            IN ended.entered /\ data = ended.data /\ result.out = ended.out

\* ------------------------------------------------------------------ claims
Loaded == result.op = "load" /\ result.out.kind # "running"
Fragments == split(strip(read(filepath)))

\* C1: the parse of the fragments of a file that load has opened ends either
\* with a tree or with the parser's own ValueError, and with no other failure.
C1_ReturnsOrMalformed ==
    (Loaded /\ exists(filepath)) => result.out.kind \in {"return", "ValueError"}

\* some key of the tree, at any depth, has no str or dict value
RECURSIVE HasKeyWithoutValue(_)
HasKeyWithoutValue(d) ==
    \E i \in 1..Len(d) :
        \/ d[i].v.t = "None"
        \/ d[i].v.t = "dict" /\ HasKeyWithoutValue(d[i].v.d)

\* C2: when the fragments of a block run out right after a key, parse fails:
\* a tree that load returns has no key without a Leaf or Block value.
C2_NoKeyWithoutValue ==
    (Loaded /\ result.out.kind = "return") => ~HasKeyWithoutValue(data)

\* C3: a one-level document of quoted pairs with distinct single-word keys and
\* quote-free values loads into one entry per pair, in order, each key mapped to
\* its value without the quotes and with every whitespace run made one space.
C3_FlatDocument ==
    (Loaded /\ filepath \in FlatTexts) =>
        /\ result.out = Return(None)
        /\ <<filepath, data>> \in FlatTable

\* C3's case: two pairs were loaded from a text of lines that end in CR NL and
\* begin with a tab, with a no-break space before the first line; the first
\* value was split into three fragments and the second into two
C3_Witness ==
    /\ Loaded /\ filepath \in FlatTexts
    /\ Contains(filepath, TAB) /\ Contains(filepath, NL) /\ Contains(filepath, "U+00A0")
    /\ Len(data) = 2
    /\ data[1].v = StrVal(<<SP, "x", SP>>)
    /\ data[2].v = StrVal(<<"x", SP, "x">>)
    /\ Len(Fragments) = 7

\* C4: a well-formed document with balanced braces loads into the tree it was
\* written from: blocks nest as the braces do, { } gives an empty block, and
\* the pair after a closing brace belongs to the enclosing block.
C4_WellFormedDocument ==
    (Loaded /\ filepath \in WellFormedTexts) =>
        /\ result.out = Return(None)
        /\ <<filepath, data>> \in WellFormedTable

\* a fragment quoted on both sides
FullyQuoted(frag) == Len(frag) >= 2 /\ frag[1] = Q /\ frag[Len(frag)] = Q

\* C5: where a key is expected, a fragment that is not quoted on both sides
\* makes parse fail with "Expected key", and no key is recorded.
C5_KeyMustBeQuoted ==
    [][(InLoop("main") /\ InRange /\ ~Top.has_key /\ ~FullyQuoted(Fragment)) =>
          (frames' = <<>> /\ result'.out.kind = "ValueError" /\ result'.out.msg = ExpectedKey)]_vars

\* the library entries of the tree d, and those whose "apps" block has the key id
LibraryEntries(d) ==
    IF Get(d, LIBRARYFOLDERS).t = "dict" THEN Get(d, LIBRARYFOLDERS).d ELSE <<>>
HasApp(e, id) ==
    /\ e.v.t = "dict" /\ Has(e.v.d, APPS)
    /\ Get(e.v.d, APPS).t = "dict" /\ Has(Get(e.v.d, APPS).d, id)
Installed(d, id) == {i \in 1..Len(LibraryEntries(d)) : HasApp(LibraryEntries(d)[i], id)}

\* C6: over a tree of Leaf and Block values with a "libraryfolders" block,
\* get_game_base_path(app_id) returns the "path" of a library entry whose "apps"
\* has app_id, fails with FileNotFoundError when no entry has it, whatever the
\* other entries are, and leaves the tree as it was.
C6_BasePath ==
    [][(/\ result'.op = "get_game_base_path"
        /\ Has(data, LIBRARYFOLDERS) /\ Get(data, LIBRARYFOLDERS).t = "dict"
        /\ ~HasKeyWithoutValue(data)) =>
          /\ data' = data
          /\ IF Installed(data, result'.arg) = {}
             THEN result'.out.kind = "FileNotFoundError"
             ELSE \/ \E i \in Installed(data, result'.arg) :
                        /\ Has(LibraryEntries(data)[i].v.d, PATH)
                        /\ result'.out = Return(Get(LibraryEntries(data)[i].v.d, PATH))
                  \/ \A i \in Installed(data, result'.arg) :
                        ~Has(LibraryEntries(data)[i].v.d, PATH)]_vars

ManifestGetters == {"get_game_installdir", "get_game_name", "get_appid"}

\* C7: over a tree of Leaf and Block values a manifest getter fails with the
\* accessor's ValueError when the root has no "AppState", returns
\* AppState[field] when the field is there, and fails with a not-found error
\* (FileNotFoundError or KeyError) when it is not.
C7_ManifestField ==
    (result.op \in ManifestGetters /\ ~HasKeyWithoutValue(data)) =>
        IF ~Has(data, APPSTATE)
        THEN result.out.kind = "ValueError"
        ELSE IF Get(data, APPSTATE).t = "dict" /\ Has(Get(data, APPSTATE).d, result.arg)
        THEN result.out = Return(Get(Get(data, APPSTATE).d, result.arg))
        ELSE result.out.kind \in {"FileNotFoundError", "KeyError"}

\* C8: at the end of the scan of a list that holds one or more fragments, parse
\* is called on exactly those fragments; only a list with none is empty.
C8_NonEmptyListIsParsed ==
    [][(InLoop("brace") /\ ~(Top.level > 0) /\ Top.position - 1 - Top.start_position >= 1) =>
          /\ Len(frames') = Len(frames) + 1
          /\ frames'[Len(frames')].data = Slice(Top.data, Top.start_position, Top.position - 1)]_vars

\* C9: in the scan for the end of a list the level goes up on the fragment {
\* alone, down on the fragment } alone and stays on every other fragment; and
\* only the fragment { alone opens a list.
C9_OnlyBraceFragmentsCount ==
    [][/\ (InLoop("brace") /\ Top.level > 0 /\ InRange) =>
             frames'[Len(frames)].level =
                 Top.level + (IF Fragment = <<LB>> THEN 1 ELSE IF Fragment = <<RB>> THEN -1 ELSE 0)
       /\ (InLoop("main") /\ InRange /\ Top.has_key /\ Fragment # <<LB>>) =>
             (frames' = <<>> \/ frames'[Len(frames)].pc # "brace")]_vars

\* every main-loop iteration and every iteration of the two scans ends at a
\* greater position than it began at
CursorAdvances ==
    \A i \in 1..Len(frames) :
        (i <= Len(frames') /\ frames'[i] # frames[i]) =>
            /\ frames'[i].pc = "main" =>
                  frames'[i].position >
                      (IF frames[i].pc = "main" THEN frames[i].position ELSE frames[i].entered)
            /\ (frames'[i].pc = frames[i].pc /\ frames[i].pc \in {"quote", "brace"}) =>
                  frames'[i].position > frames[i].position

\* a nested call gets fewer fragments than its caller has
SubRangeShorter ==
    (frames # <<>> /\ Len(frames') > Len(frames)) =>
        Len(frames'[Len(frames')].data) < Len(Top.data)

\* The steps of a load are the iterations of its three loops that ran to their
\* end, the ones that CursorAdvances is about; the iteration in which an
\* exception is raised is the failure the run reaches.  The steps are at most
\* the fragments of the file times the activations the load had at once.
IterationBound ==
    (filepath # NoFile /\ exists(filepath)) => completed <= Len(Fragments) * depth

\* C10: parse terminates on every fragment sequence: the cursor advances in
\* every iteration of the three loops, a nested call gets a shorter range, the
\* steps stay within fragments times nesting depth, and a running load ends
\* in a return or a failure.
C10_Terminates ==
    /\ [][CursorAdvances /\ SubRangeShorter]_vars
    /\ []IterationBound
    /\ (frames # <<>>) ~> (frames = <<>>)

\* C10's case: a load with calls nested three deep, a scan for the end of a
\* list and a scan for the end of a value has ended, after more steps than
\* the file has fragments
C10_Witness ==
    /\ Loaded /\ frames = <<>>
    /\ depth = 3
    /\ completed > Len(Fragments)
    /\ \E i \in 1..Len(Fragments) : Count(Fragments[i], Q) = 1

=============================================================================
